---- MODULE Spec2Model ----
(***************************************************************************)
(* Model of the authentication and authorization layer of the gobank JSON  *)
(* API (src/api/account.go): login (handleLogin, createJWT), the token     *)
(* validator (validateJWT) and the ownership guard (withJWTAuth) wrapped   *)
(* around the /account/{id} handlers.                                      *)
(***************************************************************************)
EXTENDS Integers, Sequences, FiniteSets, TLC

(***************************************************************************)
(* Bounds of the model.                                                    *)
(***************************************************************************)
MaxID == 2          \* account ids are 1..MaxID
MaxTicks == 1       \* the clock advances at most MaxTicks times
StartTime == 15001  \* first instant of the clock, in seconds since the epoch

(***************************************************************************)
(* Program constants.                                                      *)
(***************************************************************************)
ExpiresAtClaim == 15000
StatusOK == 200
StatusBadRequest == 400
StatusForbidden == 403

(***************************************************************************)
(* Optional values: << >> is "absent", <<x>> is "present with value x".    *)
(***************************************************************************)
None == << >>
Some(x) == <<x>>

(***************************************************************************)
(* Go int64 values: the Number of an account and the integers of a token.  *)
(* An integer of TLC has 32 bits, so an int64 is held as a sign and a      *)
(* magnitude hi * Limb + lo with 0 <= lo < Limb; the model holds           *)
(* magnitudes below 2^60 (hi < Limb).                                      *)
(***************************************************************************)
Limb == 2^30
I64(neg, hi, lo) == [neg |-> neg, hi |-> hi, lo |-> lo]
\* the int64 of an integer n with -Limb < n < Limb
I(n) == IF n < 0 THEN I64(TRUE, 0, -n) ELSE I64(FALSE, 0, n)
\* the integer of an int64 of magnitude below Limb
IntOf(x) == IF x.neg THEN -x.lo ELSE x.lo
MagLess(a, b) == a.hi < b.hi \/ (a.hi = b.hi /\ a.lo < b.lo)
\* a < b
Less(a, b) ==
  IF a.neg # b.neg THEN a.neg
  ELSE IF a.neg THEN MagLess(b, a) ELSE MagLess(a, b)
\* 2^53 = 2^23 * 2^30, and its successor
Two53 == I64(FALSE, 2^23, 0)
Two53Plus1 == I64(FALSE, 2^23, 1)

(***************************************************************************)
(* Small input domains.                                                    *)
(***************************************************************************)
IDs == 1..MaxID
\* account numbers: one small, and two neighbours at the end of the range in
\* which a float64 holds every integer
Numbers == {I(42), Two53, Two53Plus1}
SmallNumbers == {I(42)}
LoginNumbers == Numbers \cup {I(43)}
ServerSecrets == {"k1", ""}
Keys == {"k1", "k2", ""}
Times == StartTime..(StartTime + MaxTicks)
Slots == {1}
Methods == {"GET", "DELETE", "PUT"}
LoginMethods == {"POST", "GET"}

(***************************************************************************)
(* types.Account and its password check.  The password hash is an          *)
(* injective one-way image of the password.                                *)
(***************************************************************************)
Hash(pw) == <<"bcrypt", pw>>
PasswordFor(n) == IF n.lo % 2 = 0 THEN "hunter2" ELSE "letmein"
Passwords == {"hunter2", "letmein", ""}
Account(id, n) == [ID |-> id, Number |-> n, EncryptedPassword |-> Hash(PasswordFor(n))]
NoAccount == [ID |-> 0, Number |-> I(0), EncryptedPassword |-> Hash("")]
ValidatePassword(acc, pw) == acc.EncryptedPassword = Hash(pw)

(***************************************************************************)
(* The storage collaborator: a set of accounts, ids and numbers unique.    *)
(* The Number of an account is a Go int64 (it is compared with an int64 at *)
(* line 208), and any int64 may be the number of a stored account.         *)
(***************************************************************************)
Stores ==
  { st \in SUBSET { Account(id, n) : id \in IDs, n \in Numbers } :
      \A a, b \in st : (a.ID = b.ID \/ a.Number = b.Number) => a = b }
GetAccountByID(st, id) ==
  IF \E a \in st : a.ID = id
    THEN [acc |-> CHOOSE a \in st : a.ID = id, err |-> FALSE]
    ELSE [acc |-> NoAccount, err |-> TRUE]
GetAccountByNumber(st, n) ==
  IF \E a \in st : a.Number = n
    THEN [acc |-> CHOOSE a \in st : a.Number = n, err |-> FALSE]
    ELSE [acc |-> NoAccount, err |-> TRUE]
DeleteAccount(st, id) == { a \in st : a.ID # id }
\* the error DeleteAccount may return: none for an account storage holds; for
\* an id it holds no account for, nothing says whether the call fails, and
\* both outcomes are possible
DeleteAccountErrs(st, id) == IF \E a \in st : a.ID = id THEN {FALSE} ELSE {FALSE, TRUE}

(***************************************************************************)
(* JSON values of a claim set.  On the wire a number is a decimal literal: *)
(* an integer written in full, or (half) that integer followed by ".5".    *)
(* jwt.Parse decodes every JSON number of a MapClaims into a Go float64    *)
(* with strconv.ParseFloat: the nearest float64, a tie going to the even   *)
(* mantissa.  A float64 has 53 bits of mantissa: it holds every integer up *)
(* to 2^53 and every half up to 2^52, and beyond them only the multiples   *)
(* of a power of two.                                                      *)
(***************************************************************************)
JNum(n, half) == [half |-> half, t |-> "number", v |-> n]
JInt(n) == JNum(n, FALSE)
JStr == [half |-> FALSE, t |-> "string", v |-> I(0)]
\* the number of low bits of a magnitude that a float64 does not keep
Shift(hi) == CHOOSE s \in 0..7 : hi < 2^(23 + s) /\ (s = 0 \/ hi >= 2^(22 + s))
\* strconv.ParseFloat(literal, 64)
RoundFloat64(x, half) ==
  LET s == Shift(x.hi)
      unit == 2^s
      q == x.lo \div unit
      rem == x.lo % unit
      keepsHalf == x.hi < 2^22
      up == IF s = 0 THEN half /\ ~keepsHalf /\ q % 2 = 1
            ELSE 2 * rem > unit \/ (2 * rem = unit /\ (half \/ q % 2 = 1))
      lo1 == (IF up THEN q + 1 ELSE q) * unit
  IN  [half |-> half /\ keepsHalf,
       t |-> "float64",
       v |-> IF lo1 = Limb THEN I64(x.neg, x.hi + 1, 0) ELSE I64(x.neg, x.hi, lo1)]
ToFloat64(j) == IF j.t = "number" THEN RoundFloat64(j.v, j.half) ELSE j
\* int64(f) of a float64: the fraction is dropped (truncation toward zero)
ToInt64(f) == I64(f.v.neg /\ (f.v.hi # 0 \/ f.v.lo # 0), f.v.hi, f.v.lo)
\* f == 0
IsZero(f) == f.v.hi = 0 /\ f.v.lo = 0 /\ ~f.half
IsFloat64(o) == o # None /\ o[1].t = "float64"

Claims(acct, expAt, expC, nbfC, iatC) ==
  [accountNumber |-> acct, expiresAt |-> expAt, exp |-> expC, nbf |-> nbfC, iat |-> iatC]
EmptyClaims == Claims(None, None, None, None, None)
DecodeOpt(o) == IF o = None THEN None ELSE Some(ToFloat64(o[1]))
\* json decoding of the claims segment into jwt.MapClaims
DecodeClaims(c) ==
  Claims(DecodeOpt(c.accountNumber), DecodeOpt(c.expiresAt),
         DecodeOpt(c.exp), DecodeOpt(c.nbf), DecodeOpt(c.iat))

(***************************************************************************)
(* Tokens.  A signature is the MAC of (header, claims) under a key; it     *)
(* verifies only against the same key, header and claims.                  *)
(***************************************************************************)
HMAC(key, alg, claims) == [key |-> key, alg |-> alg, claims |-> claims, signed |-> TRUE]
NoSig == [key |-> "", alg |-> "", claims |-> EmptyClaims, signed |-> FALSE]
JWT(alg, claims, sig) == [alg |-> alg, claims |-> claims, sig |-> sig, shape |-> "jwt"]
NoHeader == [alg |-> "", claims |-> EmptyClaims, sig |-> NoSig, shape |-> "empty"]
Garbage == [alg |-> "", claims |-> EmptyClaims, sig |-> NoSig, shape |-> "garbage"]

createJWT_WithID(account, secret) ==
  LET claims == Claims(Some(JInt(I(account.ID))), Some(JInt(I(ExpiresAtClaim))), None, None, None)
  IN  [err |-> FALSE, token |-> JWT("HS256", claims, HMAC(secret, "HS256", claims))]
\* createJWT: claims {expiresAt: 15000, accountNumber: account.Number},
\* signed HS256 with the secret of the environment.  Signing never fails.
createJWT(account, secret) ==
  LET claims == Claims(Some(JInt(account.Number)), Some(JInt(I(ExpiresAtClaim))),
                       None, None, None)
  IN  [err |-> FALSE, token |-> JWT("HS256", claims, HMAC(secret, "HS256", claims))]

\* jwt.MapClaims.Valid at time now: exp, iat and nbf are checked when present
\* (a value of 0 counts as absent, a value that is no number fails); a token
\* is expired from the instant exp on, as in golang-jwt v4.2 and later.
TimeClaimOK(o, now, isExp) ==
  \/ o = None
  \/ /\ IsFloat64(o)
     /\ \/ IsZero(o[1])
        \/ IF isExp THEN Less(I(now), ToInt64(o[1])) ELSE ~Less(I(now), ToInt64(o[1]))
ClaimsValid(c, now) ==
  /\ TimeClaimOK(c.exp, now, TRUE)
  /\ TimeClaimOK(c.iat, now, FALSE)
  /\ TimeClaimOK(c.nbf, now, FALSE)

KeyFuncOK_Any(alg) == TRUE
\* the key function given to jwt.Parse: only HMAC methods get the secret
KeyFuncOK(alg) == alg \in {"HS256", "HS384", "HS512"}
SignatureOK(tok, secret) == tok.sig = HMAC(secret, tok.alg, tok.claims)

\* validateJWT: jwt.Parse with the key function above.  err = FALSE exactly
\* when token.Valid is set.
validateJWT(tok, secret, now) ==
  LET claims == DecodeClaims(tok.claims)
      ok == /\ tok.shape = "jwt"
            /\ KeyFuncOK(tok.alg)
            /\ ClaimsValid(claims, now)
            /\ SignatureOK(tok, secret)
  IN  [err |-> ~ok,
       claims |-> IF tok.shape = "jwt" THEN claims ELSE EmptyClaims,
       valid |-> ok]

(***************************************************************************)
(* getID: strconv.Atoi of the {id} path variable, a sequence of            *)
(* characters: an optional sign followed by one or more decimal digits.    *)
(***************************************************************************)
Digit(ch) ==
  CASE ch = "0" -> 0 [] ch = "1" -> 1 [] ch = "2" -> 2 [] ch = "3" -> 3
    [] ch = "4" -> 4 [] ch = "5" -> 5 [] ch = "6" -> 6 [] ch = "7" -> 7
    [] ch = "8" -> 8 [] ch = "9" -> 9 [] OTHER -> -1
RECURSIVE DigitsValue(_)
DigitsValue(s) ==
  IF s = << >> THEN 0
  ELSE 10 * DigitsValue(SubSeq(s, 1, Len(s) - 1)) + Digit(s[Len(s)])
AllDigits(s) == s # << >> /\ \A i \in 1..Len(s) : Digit(s[i]) >= 0
\* the range of a Go int (64 bits), as digits: math.MaxInt64 and -math.MinInt64
MaxIntDigits ==
  <<"9", "2", "2", "3", "3", "7", "2", "0", "3", "6", "8", "5", "4", "7", "7", "5", "8", "0", "7">>
MinIntDigits ==
  <<"9", "2", "2", "3", "3", "7", "2", "0", "3", "6", "8", "5", "4", "7", "7", "5", "8", "0", "8">>
RECURSIVE StripZeros(_)
StripZeros(ds) == IF Len(ds) > 1 /\ ds[1] = "0" THEN StripZeros(Tail(ds)) ELSE ds
\* a <= b for digit strings of one length
RECURSIVE DigitsLeq(_, _)
DigitsLeq(a, b) ==
  IF a = << >> THEN TRUE
  ELSE IF Digit(a[1]) < Digit(b[1]) THEN TRUE
  ELSE IF Digit(a[1]) > Digit(b[1]) THEN FALSE
  ELSE DigitsLeq(Tail(a), Tail(b))
\* the value of the digits fits an int
InRange(neg, ds) ==
  LET d == StripZeros(ds)
      lim == IF neg THEN MinIntDigits ELSE MaxIntDigits
  IN  Len(d) < Len(lim) \/ (Len(d) = Len(lim) /\ DigitsLeq(d, lim))
\* strconv.Atoi: a syntax error for anything but an optional sign and digits,
\* a range error for a value no int holds.  With a range error the code
\* returns the nearest int beside the error; no caller reads the value of a
\* failed conversion, and the model returns 0 there.
Atoi(s) ==
  LET signed == s # << >> /\ s[1] \in {"+", "-"}
      neg == signed /\ s[1] = "-"
      ds == IF signed THEN Tail(s) ELSE s
  IN  IF ~AllDigits(ds) THEN [id |-> 0, err |-> TRUE]
      ELSE IF ~InRange(neg, ds) THEN [id |-> 0, err |-> TRUE]
      ELSE [id |-> IF neg THEN -DigitsValue(ds) ELSE DigitsValue(ds), err |-> FALSE]
getID(idStr) == Atoi(idStr)

RECURSIVE Itoa(_)
Itoa(n) ==
  LET d == CASE n % 10 = 0 -> "0" [] n % 10 = 1 -> "1" [] n % 10 = 2 -> "2"
             [] n % 10 = 3 -> "3" [] n % 10 = 4 -> "4" [] n % 10 = 5 -> "5"
             [] n % 10 = 6 -> "6" [] n % 10 = 7 -> "7" [] n % 10 = 8 -> "8"
             [] OTHER -> "9"
  IN  IF n < 10 THEN <<d>> ELSE Append(Itoa(n \div 10), d)
\* a digit string whose value no int holds
TooLong == MaxIntDigits \o <<"9">>
PathIds ==
  { Itoa(i) : i \in 1..(MaxID + 1) }
  \cup { <<"0", "1">>, <<"+", "2">>, <<"a">>, <<"1", "x">>, TooLong }


(***************************************************************************)
(* Tokens a client may present: the tokens createJWT issues, under any     *)
(* key, and variants of them.                                              *)
(***************************************************************************)
IssuedClaims(n) == Claims(Some(JInt(n)), Some(JInt(I(ExpiresAtClaim))), None, None, None)
ExpValues == {0, StartTime, StartTime + 1, StartTime + MaxTicks + 1}
LaterValues == {StartTime + 1}
\* the claims of an issued token with the number 42.5 in the place of 42
FractionalClaims == [IssuedClaims(I(42)) EXCEPT !.accountNumber = Some(JNum(I(42), TRUE))]
ClaimSets ==
  { IssuedClaims(n) : n \in Numbers }
  \cup { [IssuedClaims(n) EXCEPT !.exp = Some(JInt(I(e)))] : n \in SmallNumbers, e \in ExpValues }
  \cup { [IssuedClaims(I(42)) EXCEPT !.nbf = Some(JInt(I(e)))] : e \in LaterValues }
  \cup { [IssuedClaims(I(42)) EXCEPT !.iat = Some(JInt(I(e)))] : e \in LaterValues }
  \cup { [IssuedClaims(I(42)) EXCEPT !.exp = Some(JStr)],
         [IssuedClaims(I(42)) EXCEPT !.accountNumber = None],
         [IssuedClaims(I(42)) EXCEPT !.accountNumber = Some(JStr)],
         FractionalClaims }
SignedTokens == { JWT("HS256", c, HMAC(k, "HS256", c)) : c \in ClaimSets, k \in Keys }
TamperedTokens ==
  { JWT("HS256", IssuedClaims(p[1]), HMAC(k, "HS256", IssuedClaims(p[2]))) :
      k \in Keys, p \in { <<I(42), Two53>>, <<Two53, I(42)>> } }
OtherAlgTokens ==
  { JWT("none", IssuedClaims(n), NoSig) : n \in Numbers }
  \cup { JWT("RS256", IssuedClaims(n), HMAC("rsa", "RS256", IssuedClaims(n))) : n \in SmallNumbers }
  \cup { JWT("none", IssuedClaims(n), HMAC(k, "none", IssuedClaims(n))) : n \in SmallNumbers, k \in {"k1"} }
Tokens == SignedTokens \cup TamperedTokens \cup OtherAlgTokens \cup {NoHeader, Garbage}

(***************************************************************************)
(* Requests and responses.                                                 *)
(***************************************************************************)
\* a decoded body: wf says whether Decode succeeded, nil whether it left the
\* request pointer nil
LoginBody(ok, n, pw) == [Number |-> n, Password |-> pw, wf |-> ok, nil |-> FALSE]
NoBody == LoginBody(FALSE, I(0), "")
\* the JSON body null: Decode(&req) succeeds and sets req to nil
NullBody == [LoginBody(TRUE, I(0), "") EXCEPT !.nil = TRUE]
\* types.CreateAccountRequest as decoded: the password (the names are not kept)
CreateBody(ok, pw) == LoginBody(ok, I(0), pw)
\* types.TransferRequest as decoded: toAccount (the amount is not kept)
TransferBody(ok, to) == LoginBody(ok, to, "")
LoginBodies ==
  { LoginBody(TRUE, n, pw) : n \in LoginNumbers, pw \in Passwords } \cup {NoBody, NullBody}
Request(route, method, idStr, token, body) ==
  [id |-> idStr, token |-> token, route |-> route, method |-> method, body |-> body]
NoRequest == Request("", "", << >>, NoHeader, NoBody)
AccountRequests ==
  { Request("/account/{id}", m, i, t, NoBody) : m \in Methods, i \in PathIds, t \in Tokens }
LoginRequests ==
  { Request("/login", m, << >>, NoHeader, b) : m \in LoginMethods, b \in LoginBodies }
\* requests on the routes that ask for no token
PublicRequests ==
  { Request("/account", m, << >>, NoHeader, b) :
      m \in {"GET", "POST", "DELETE"}, b \in {CreateBody(TRUE, "hunter2"), NoBody} }
  \cup { Request("/transfer", m, << >>, NoHeader, b) :
           m \in LoginMethods, b \in {TransferBody(TRUE, I(42)), NoBody} }

Response(status, kind, error, token, number, account) ==
  [account |-> account, token |-> token, status |-> status, kind |-> kind,
   error |-> error, number |-> number, accounts |-> {}]
NoResponse == Response(0, "", "", None, None, None)
\* WriteJSON(w, status, ApiError{Error: msg})
WriteApiError(status, msg) == Response(status, "ApiError", msg, None, None, None)
\* WriteJSON(w, status, "msg")
WriteString(status, msg) == Response(status, "string", msg, None, None, None)
\* WriteJSON(w, http.StatusOK, types.LoginResponse{Token, Number})
WriteLoginResponse(token, number) ==
  Response(StatusOK, "LoginResponse", "", Some(token), Some(number), None)
\* WriteJSON(w, http.StatusOK, account)
WriteAccount(acc) == Response(StatusOK, "Account", "", None, None, Some(acc))
\* WriteJSON(w, http.StatusOK, map[string]int{"deleted": id})
WriteDeleted(id) == Response(StatusOK, "deleted", "", None, Some(I(id)), None)
\* WriteJSON(w, http.StatusOK, accounts)
WriteAccounts(st) == [Response(StatusOK, "Accounts", "", None, None, None) EXCEPT !.accounts = st]
\* WriteJSON(w, http.StatusOK, transferReq)
WriteTransfer(b) == Response(StatusOK, "TransferRequest", "", None, Some(b.Number), None)

\* makeHTTPHandleFunc: an error returned by the handler becomes a 400 ApiError
makeHTTPHandleFunc(res) ==
  IF res.err THEN WriteApiError(StatusBadRequest, res.msg) ELSE res.resp
Ok(r) == [err |-> FALSE, msg |-> "", resp |-> r, panic |-> FALSE]
Err(msg) == [err |-> TRUE, msg |-> msg, resp |-> NoResponse, panic |-> FALSE]
\* the handler panicked: it wrote no response and did not return
Panic == [err |-> TRUE, msg |-> "", resp |-> NoResponse, panic |-> TRUE]

\* a call of a collaborator with an id (Call) or an account number (CallN)
Call(op, arg) == [op |-> op, arg |-> arg, num |-> I(0)]
CallN(op, n) == [op |-> op, arg |-> 0, num |-> n]
\* the guard's local variables: token.Valid, token.Claims, userID, account,
\* and the time at which the request was served: the time jwt.Parse read the
\* clock at, or the time at which handleLogin issued its token
Locals(valid, claims, at, userID, account) ==
  [claims |-> claims, account |-> account, valid |-> valid, at |-> at, userID |-> userID]
NoLocals == Locals(FALSE, EmptyClaims, 0, 0, NoAccount)


(***************************************************************************)
(* State.                                                                  *)
(***************************************************************************)
VARIABLES
  store,     \* the accounts the storage collaborator holds
  secret,    \* os.Getenv("JWT_SECRET"), read-only after process start
  now,       \* time.Now(), in seconds
  pc,        \* pc[r]: where request slot r is
  rq,        \* rq[r]: the request in slot r
  resp,      \* resp[r]: the response written for it
  calls,     \* calls[r]: the storage calls made for it, in order
  invoked,   \* invoked[r]: the guard called the wrapped handler
  loc        \* loc[r]: the guard's local variables (claims, userID, account)

vars == <<store, secret, now, pc, rq, resp, calls, invoked, loc>>

Init ==
  /\ store \in Stores
  /\ secret \in ServerSecrets
  /\ now = StartTime
  /\ pc = [r \in Slots |-> "idle"]
  /\ rq = [r \in Slots |-> NoRequest]
  /\ resp = [r \in Slots |-> NoResponse]
  /\ calls = [r \in Slots |-> << >>]
  /\ invoked = [r \in Slots |-> FALSE]
  /\ loc = [r \in Slots |-> NoLocals]

\* The clock advances.
Tick ==
  /\ now < StartTime + MaxTicks
  /\ now' = now + 1
  /\ UNCHANGED <<store, secret, pc, rq, resp, calls, invoked, loc>>

\* The router receives a request (APIServer.Run) on a free slot.
Route(q) ==
  CASE q.route = "/login" -> "login"
    [] q.route = "/account" -> "account"
    [] q.route = "/account/{id}" -> "guard"
    [] q.route = "/transfer" -> "transfer"
Recv(r, q) ==
  /\ pc[r] = "idle"
  /\ pc' = [pc EXCEPT ![r] = Route(q)]
  /\ rq' = [rq EXCEPT ![r] = q]
  /\ UNCHANGED <<store, secret, now, resp, calls, invoked, loc>>

\* The request-handling task of a served (or crashed) request ends.
Release(r) ==
  /\ pc[r] \in {"done", "crashed"}
  /\ pc' = [pc EXCEPT ![r] = "idle"]
  /\ rq' = [rq EXCEPT ![r] = NoRequest]
  /\ resp' = [resp EXCEPT ![r] = NoResponse]
  /\ calls' = [calls EXCEPT ![r] = << >>]
  /\ invoked' = [invoked EXCEPT ![r] = FALSE]
  /\ loc' = [loc EXCEPT ![r] = NoLocals]
  /\ UNCHANGED <<store, secret, now>>

handleLogin_NoPasswordCheck(q, st, sec) ==
  LET got == GetAccountByNumber(st, q.body.Number)
      tok == createJWT(got.acc, sec)
  IN  IF q.method # "POST"
        THEN Ok(WriteString(StatusBadRequest,
                            "this method is not supported you should use POST instead"))
      ELSE IF ~q.body.wf THEN Err("decode error")
      ELSE IF q.body.nil THEN Panic
      ELSE IF got.err THEN Err("account not found")
      ELSE IF tok.err THEN Err("signing error")
      ELSE Ok(WriteLoginResponse(tok.token, got.acc.Number))
handleLogin_AnyMethod(q, st, sec) ==
  LET got == GetAccountByNumber(st, q.body.Number)
      tok == createJWT(got.acc, sec)
  IN  IF ~q.body.wf THEN Err("decode error")
      ELSE IF q.body.nil THEN Panic
      ELSE IF got.err THEN Err("account not found")
      ELSE IF ~ValidatePassword(got.acc, q.body.Password)
        THEN Ok(WriteString(StatusForbidden, "Either number or password is incorect"))
      ELSE IF tok.err THEN Err("signing error")
      ELSE Ok(WriteLoginResponse(tok.token, got.acc.Number))
\* handleLogin, as wrapped by makeHTTPHandleFunc.
handleLogin(q, st, sec) ==
  LET got == GetAccountByNumber(st, q.body.Number)
      tok == createJWT(got.acc, sec)
  IN  IF q.method # "POST"
        THEN Ok(WriteString(StatusBadRequest,
                            "this method is not supported you should use POST instead"))
      ELSE IF ~q.body.wf THEN Err("decode error")
      ELSE IF q.body.nil THEN Panic
      ELSE IF got.err THEN Err("account not found")
      ELSE IF ~ValidatePassword(got.acc, q.body.Password)
        THEN Ok(WriteString(StatusForbidden, "Either number or password is incorect"))
      ELSE IF tok.err THEN Err("signing error")
      ELSE Ok(WriteLoginResponse(tok.token, got.acc.Number))
\* the calls handleLogin makes on its way: the storage lookup, then createJWT
LoginCalls(q, st) ==
  LET got == GetAccountByNumber(st, q.body.Number)
  IN  IF q.method # "POST" \/ ~q.body.wf \/ q.body.nil THEN << >>
      ELSE IF got.err \/ ~ValidatePassword(got.acc, q.body.Password)
        THEN <<CallN("GetAccountByNumber", q.body.Number)>>
      ELSE <<CallN("GetAccountByNumber", q.body.Number), CallN("createJWT", got.acc.Number)>>
\* A panic of the handler (req.Number on a nil request, line 51) ends the
\* request with no response: net/http recovers it and drops the connection.
Login(r) ==
  /\ pc[r] = "login"
  /\ LET res == handleLogin(rq[r], store, secret)
     IN  IF res.panic
           THEN /\ pc' = [pc EXCEPT ![r] = "crashed"]
                /\ resp' = resp
           ELSE /\ pc' = [pc EXCEPT ![r] = "done"]
                /\ resp' = [resp EXCEPT ![r] = makeHTTPHandleFunc(res)]
  /\ calls' = [calls EXCEPT ![r] = LoginCalls(rq[r], store)]
  /\ loc' = [loc EXCEPT ![r].at = now]
  /\ UNCHANGED <<store, secret, now, rq, invoked>>

(***************************************************************************)
(* The routes that ask for no token: /account and /transfer.               *)
(***************************************************************************)
\* types.NewAccount: an account with the number it draws and the hash of the
\* password; storage.CreateAccount gives it its id
NewAccount(n, pw) == [ID |-> 0, Number |-> n, EncryptedPassword |-> Hash(pw)]
FreeIDs(st) == { i \in IDs : \A a \in st : a.ID # i }
FreeNumbers(st) == { n \in Numbers : \A a \in st : a.Number # n }
CreateAccount(st, acc) == st \cup {acc}
\* the errors storage.GetAccounts and types.NewAccount may return: the code
\* of neither is here, and both outcomes are possible on every input
GetAccountsErrs == {FALSE, TRUE}
NewAccountErrs == {FALSE, TRUE}
\* handleGetAccount: gerr is the error of storage.GetAccounts
handleGetAccount(st, gerr) ==
  IF gerr THEN Err("storage error") ELSE Ok(WriteAccounts(st))
\* handleCreateAccount: nerr is the error of types.NewAccount, acc the account
\* as created, cerr the error of storage.CreateAccount
handleCreateAccount(q, acc, nerr, cerr) ==
  IF ~q.body.wf THEN Err("decode error")
  ELSE IF nerr THEN Err("new account failed")
  ELSE IF cerr THEN Err("create failed")
  ELSE Ok(WriteAccount(acc))
\* handleAccount
handleAccount(q, st, acc, gerr, nerr, cerr) ==
  IF q.method = "GET" THEN handleGetAccount(st, gerr)
  ELSE IF q.method = "POST" THEN handleCreateAccount(q, acc, nerr, cerr)
  ELSE Err("method not allowed " \o q.method)
\* handleTransfer
handleTransfer(q) ==
  IF q.method = "POST"
    THEN IF ~q.body.wf THEN Err("decode error") ELSE Ok(WriteTransfer(q.body))
  ELSE Err("method " \o q.method \o "  not supported, you should use POST instead")

\* makeHTTPHandleFunc(s.handleAccount) runs.  The number NewAccount draws and
\* the id storage gives are any; storage refuses an account whose number or
\* id it holds already, and it holds no more than MaxID accounts.  A failing
\* NewAccount ends the handler before storage is called.
AccountRoute(r) ==
  /\ pc[r] = "account"
  /\ \E n \in Numbers : \E i \in IDs :
     \E gerr \in GetAccountsErrs : \E nerr \in NewAccountErrs :
       LET q == rq[r]
           acc == [NewAccount(n, q.body.Password) EXCEPT !.ID = i]
           creating == q.method = "POST" /\ q.body.wf /\ ~nerr
           cerr == n \notin FreeNumbers(store) \/ i \notin FreeIDs(store)
       IN  /\ resp' = [resp EXCEPT ![r] =
                         makeHTTPHandleFunc(handleAccount(q, store, acc, gerr, nerr, cerr))]
           /\ store' = IF creating /\ ~cerr THEN CreateAccount(store, acc) ELSE store
           /\ calls' = [calls EXCEPT ![r] =
                          IF q.method = "GET" THEN <<Call("GetAccounts", 0)>>
                          ELSE IF creating THEN <<CallN("CreateAccount", n)>>
                          ELSE << >>]
  /\ pc' = [pc EXCEPT ![r] = "done"]
  /\ UNCHANGED <<secret, now, rq, invoked, loc>>

\* makeHTTPHandleFunc(s.handleTransfer) runs.
Transfer(r) ==
  /\ pc[r] = "transfer"
  /\ resp' = [resp EXCEPT ![r] = makeHTTPHandleFunc(handleTransfer(rq[r]))]
  /\ pc' = [pc EXCEPT ![r] = "done"]
  /\ UNCHANGED <<store, secret, now, rq, calls, invoked, loc>>

\* faulty variant: the rejection is written as a bare string, no error object
PermissionDenied_Plain == WriteString(StatusForbidden, "permission denied")
\* the guard's rejection: WriteJSON(w, http.StatusForbidden, ApiError{Error: "permission denied"})
PermissionDenied == WriteApiError(StatusForbidden, "permission denied")

AccountNotFound_Forbidden == PermissionDenied
\* the guard's answer when storage has no account for the id
AccountNotFound == WriteApiError(StatusBadRequest, "This account does not exist")

\* faulty variant: the storage lookup is made before the token is looked at
GuardValidate_LookupFirst(r) ==
  /\ pc[r] = "guard"
  /\ calls' = [calls EXCEPT ![r] = Append(@, Call("GetAccountByID", getID(rq[r].id).id))]
  /\ LET v == validateJWT(rq[r].token, secret, now)
         g == getID(rq[r].id)
     IN  IF v.err \/ ~v.valid \/ g.err
           THEN /\ resp' = [resp EXCEPT ![r] = PermissionDenied]
                /\ pc' = [pc EXCEPT ![r] = "done"]
                /\ loc' = [loc EXCEPT ![r] = Locals(v.valid, v.claims, now, 0, NoAccount)]
           ELSE /\ loc' = [loc EXCEPT ![r] = Locals(v.valid, v.claims, now, g.id, NoAccount)]
                /\ pc' = [pc EXCEPT ![r] = "load"]
                /\ resp' = resp
  /\ UNCHANGED <<store, secret, now, rq, invoked>>
\* faulty variant: an id that does not parse is answered as a client input error
GuardValidate_IdBadRequest(r) ==
  /\ pc[r] = "guard"
  /\ LET v == validateJWT(rq[r].token, secret, now)
         g == getID(rq[r].id)
     IN  IF v.err \/ ~v.valid
           THEN /\ resp' = [resp EXCEPT ![r] = PermissionDenied]
                /\ pc' = [pc EXCEPT ![r] = "done"]
                /\ loc' = [loc EXCEPT ![r] = Locals(v.valid, v.claims, now, 0, NoAccount)]
           ELSE IF g.err
           THEN /\ resp' = [resp EXCEPT ![r] =
                              WriteApiError(StatusBadRequest, "This id is not a valid integer")]
                /\ pc' = [pc EXCEPT ![r] = "done"]
                /\ loc' = [loc EXCEPT ![r] = Locals(v.valid, v.claims, now, 0, NoAccount)]
           ELSE /\ loc' = [loc EXCEPT ![r] = Locals(v.valid, v.claims, now, g.id, NoAccount)]
                /\ pc' = [pc EXCEPT ![r] = "load"]
                /\ resp' = resp
  /\ UNCHANGED <<store, secret, now, rq, calls, invoked>>

\* withJWTAuth, first part: read the header, validateJWT, getID.
GuardValidate(r) ==
  /\ pc[r] = "guard"
  /\ LET v == validateJWT(rq[r].token, secret, now)
         g == getID(rq[r].id)
     IN  IF v.err \/ ~v.valid \/ g.err
           THEN /\ resp' = [resp EXCEPT ![r] = PermissionDenied]
                /\ pc' = [pc EXCEPT ![r] = "done"]
                /\ loc' = [loc EXCEPT ![r] = Locals(v.valid, v.claims, now, 0, NoAccount)]
           ELSE /\ loc' = [loc EXCEPT ![r] = Locals(v.valid, v.claims, now, g.id, NoAccount)]
                /\ pc' = [pc EXCEPT ![r] = "load"]
                /\ resp' = resp
  /\ UNCHANGED <<store, secret, now, rq, calls, invoked>>

\* the comparison of the guard: account.Number != int64(claims["accountNumber"].(float64))
OwnerMismatch(account, claims) == account.Number # ToInt64(claims.accountNumber[1])

\* faulty variant: the claims live in one variable all requests share, and
\* the comparison reads what another request's validation left there
SharedClaims(r) ==
  LET others == { s \in DOMAIN loc \ {r} : loc[s].valid }
  IN  IF others = {} THEN loc[r].claims ELSE loc[CHOOSE s \in others : TRUE].claims
GuardLoad_SharedLocals(r) ==
  /\ pc[r] = "load"
  /\ LET got == GetAccountByID(store, loc[r].userID)
     IN  /\ calls' = [calls EXCEPT ![r] = Append(@, Call("GetAccountByID", loc[r].userID))]
         /\ IF got.err
              THEN /\ resp' = [resp EXCEPT ![r] = AccountNotFound]
                   /\ pc' = [pc EXCEPT ![r] = "done"]
                   /\ UNCHANGED <<invoked, loc>>
            ELSE IF ~IsFloat64(SharedClaims(r).accountNumber)
              THEN /\ pc' = [pc EXCEPT ![r] = "crashed"]
                   /\ loc' = [loc EXCEPT ![r].account = got.acc]
                   /\ UNCHANGED <<invoked, resp>>
            ELSE IF OwnerMismatch(got.acc, SharedClaims(r))
              THEN /\ resp' = [resp EXCEPT ![r] = PermissionDenied]
                   /\ pc' = [pc EXCEPT ![r] = "done"]
                   /\ loc' = [loc EXCEPT ![r].account = got.acc]
                   /\ UNCHANGED invoked
            ELSE /\ invoked' = [invoked EXCEPT ![r] = TRUE]
                 /\ pc' = [pc EXCEPT ![r] = "handler"]
                 /\ loc' = [loc EXCEPT ![r].account = got.acc]
                 /\ UNCHANGED resp
  /\ UNCHANGED <<store, secret, now, rq>>
\* withJWTAuth, second part: GetAccountByID, the owner comparison, and the
\* call of the wrapped handler.  The type assertion panics on a claim that is
\* absent or no number; net/http recovers the panic and drops the connection.
GuardLoad(r) ==
  /\ pc[r] = "load"
  /\ LET got == GetAccountByID(store, loc[r].userID)
     IN  /\ calls' = [calls EXCEPT ![r] = Append(@, Call("GetAccountByID", loc[r].userID))]
         /\ IF got.err
              THEN /\ resp' = [resp EXCEPT ![r] = AccountNotFound]
                   /\ pc' = [pc EXCEPT ![r] = "done"]
                   /\ UNCHANGED <<invoked, loc>>
            ELSE IF ~IsFloat64(loc[r].claims.accountNumber)
              THEN /\ pc' = [pc EXCEPT ![r] = "crashed"]
                   /\ loc' = [loc EXCEPT ![r].account = got.acc]
                   /\ UNCHANGED <<invoked, resp>>
            ELSE IF OwnerMismatch(got.acc, loc[r].claims)
              THEN /\ resp' = [resp EXCEPT ![r] = PermissionDenied]
                   /\ pc' = [pc EXCEPT ![r] = "done"]
                   /\ loc' = [loc EXCEPT ![r].account = got.acc]
                   /\ UNCHANGED invoked
            ELSE /\ invoked' = [invoked EXCEPT ![r] = TRUE]
                 /\ pc' = [pc EXCEPT ![r] = "handler"]
                 /\ loc' = [loc EXCEPT ![r].account = got.acc]
                 /\ UNCHANGED resp
  /\ UNCHANGED <<store, secret, now, rq>>

\* handleGetAccountByID
handleGetAccountByID(q, st) ==
  LET g == getID(q.id)
      got == GetAccountByID(st, g.id)
  IN  IF g.err THEN Err("This id is not a valid integer")
      ELSE IF got.err THEN Err("account not found")
      ELSE Ok(WriteAccount(got.acc))
\* handleDeleteAccount
handleDeleteAccount(q, derr) ==
  LET g == getID(q.id)
  IN  IF g.err THEN Err("This id is not a valid integer")
      ELSE IF derr THEN Err("delete failed")
      ELSE Ok(WriteDeleted(g.id))
\* handleAccountWithID
handleAccountWithID(q, st, derr) ==
  IF q.method = "GET" THEN handleGetAccountByID(q, st)
  ELSE IF q.method = "DELETE" THEN handleDeleteAccount(q, derr)
  ELSE Err("method not allowed " \o q.method)

\* faulty variant: the handler takes the id from a variable the guards of all
\* requests write, and not from the path of its own request
SharedUserID(r) ==
  LET others == { s \in DOMAIN loc \ {r} : pc[s] \in {"load", "handler"} }
  IN  IF others = {} THEN loc[r].userID ELSE loc[CHOOSE s \in others : TRUE].userID
Handler_SharedID(r) ==
  /\ pc[r] = "handler"
  /\ \E derr \in DeleteAccountErrs(store, SharedUserID(r)) :
     LET q == [rq[r] EXCEPT !.id = Itoa(SharedUserID(r))]
         g == getID(q.id)
     IN  /\ resp' = [resp EXCEPT ![r] =
                       makeHTTPHandleFunc(handleAccountWithID(q, store, derr))]
         /\ IF q.method = "DELETE" /\ ~g.err
              THEN /\ store' = DeleteAccount(store, g.id)
                   /\ calls' = [calls EXCEPT ![r] = Append(@, Call("DeleteAccount", g.id))]
            ELSE IF q.method = "GET" /\ ~g.err
              THEN /\ store' = store
                   /\ calls' = [calls EXCEPT ![r] = Append(@, Call("GetAccountByID", g.id))]
            ELSE UNCHANGED <<store, calls>>
  /\ pc' = [pc EXCEPT ![r] = "done"]
  /\ UNCHANGED <<secret, now, rq, invoked, loc>>
\* The wrapped handler, makeHTTPHandleFunc(s.handleAccountWithID), runs.
Handler(r) ==
  /\ pc[r] = "handler"
  /\ \E derr \in DeleteAccountErrs(store, getID(rq[r].id).id) :
     LET q == rq[r]
         g == getID(q.id)
     IN  /\ resp' = [resp EXCEPT ![r] =
                       makeHTTPHandleFunc(handleAccountWithID(q, store, derr))]
         /\ IF q.method = "DELETE" /\ ~g.err
              THEN /\ store' = DeleteAccount(store, g.id)
                   /\ calls' = [calls EXCEPT ![r] = Append(@, Call("DeleteAccount", g.id))]
            ELSE IF q.method = "GET" /\ ~g.err
              THEN /\ store' = store
                   /\ calls' = [calls EXCEPT ![r] = Append(@, Call("GetAccountByID", g.id))]
            ELSE UNCHANGED <<store, calls>>
  /\ pc' = [pc EXCEPT ![r] = "done"]
  /\ UNCHANGED <<secret, now, rq, invoked, loc>>

Next ==
  \/ Tick
  \/ \E r \in Slots : \E q \in AccountRequests \cup LoginRequests \cup PublicRequests :
       Recv(r, q)
  \/ \E r \in Slots : Login(r)
  \/ \E r \in Slots : AccountRoute(r)
  \/ \E r \in Slots : Transfer(r)
  \/ \E r \in Slots : GuardValidate(r)
  \/ \E r \in Slots : GuardLoad(r)
  \/ \E r \in Slots : Handler(r)
  \/ \E r \in Slots : Release(r)

Spec == Init /\ [][Next]_vars

(***************************************************************************)
(* Requests served concurrently.  net/http serves every request on a       *)
(* goroutine of its own; two slots hold two requests in flight, whose      *)
(* steps interleave.  The requests are those of token holders: logins, and *)
(* requests on /account/{id} with tokens createJWT issued.                 *)
(***************************************************************************)
ConcSlots == {1, 2}
ConcSecret == "k1"
ConcPathIds == { Itoa(i) : i \in 1..2 }
HolderTokens == { createJWT(Account(0, n), ConcSecret).token : n \in Numbers }
\* a token of another issuer, and a token that expires while the model runs
ForeignToken == createJWT(Account(0, I(42)), "k2").token
ShortLivedClaims == [IssuedClaims(I(42)) EXCEPT !.exp = Some(JInt(I(StartTime + 1)))]
ShortLivedToken == JWT("HS256", ShortLivedClaims, HMAC(ConcSecret, "HS256", ShortLivedClaims))
ReadOnlyRequests ==
  { Request("/login", "POST", << >>, NoHeader, LoginBody(TRUE, n, pw)) :
      n \in LoginNumbers, pw \in {"hunter2", "letmein"} }
  \cup { Request("/login", "POST", << >>, NoHeader, NullBody) }
  \cup { Request("/account/{id}", "GET", i, t, NoBody) :
           i \in ConcPathIds \cup {<<"a">>},
           t \in HolderTokens \cup {ForeignToken, ShortLivedToken, NoHeader} }
ConcRequests ==
  { Request("/account/{id}", m, i, t, NoBody) :
      m \in {"GET", "DELETE"}, i \in ConcPathIds, t \in HolderTokens }

InitConc ==
  /\ store \in Stores
  /\ secret = ConcSecret
  /\ now = StartTime
  /\ pc = [r \in ConcSlots |-> "idle"]
  /\ rq = [r \in ConcSlots |-> NoRequest]
  /\ resp = [r \in ConcSlots |-> NoResponse]
  /\ calls = [r \in ConcSlots |-> << >>]
  /\ invoked = [r \in ConcSlots |-> FALSE]
  /\ loc = [r \in ConcSlots |-> NoLocals]

\* logins and reads in flight together: no request changes the store
NextReadOnly ==
  \/ Tick
  \/ \E r \in ConcSlots : \E q \in ReadOnlyRequests : Recv(r, q)
  \/ \E r \in ConcSlots : Login(r)
  \/ \E r \in ConcSlots : GuardValidate(r)
  \/ \E r \in ConcSlots : GuardLoad(r)
  \/ \E r \in ConcSlots : Handler(r)
  \/ \E r \in ConcSlots : Release(r)

SpecReadOnly == InitConc /\ [][NextReadOnly]_vars

\* reads and deletes of token holders in flight together on one store
NextConc ==
  \/ \E r \in ConcSlots : \E q \in ConcRequests : Recv(r, q)
  \/ \E r \in ConcSlots : GuardValidate(r)
  \/ \E r \in ConcSlots : GuardLoad(r)
  \/ \E r \in ConcSlots : Handler(r)
  \/ \E r \in ConcSlots : Release(r)

SpecConc == InitConc /\ [][NextConc]_vars


(***************************************************************************)
(* Vocabulary of the properties.                                           *)
(***************************************************************************)
Guarded(r) == rq[r].route = "/account/{id}"
Answered(r) == pc[r] \in {"done", "crashed", "handler"}
IssuedFor(tok, n) == tok = createJWT(Account(0, n), secret).token
\* the account the guard's storage lookup returned, when it returned one
Loaded(r) == loc[r].account # NoAccount
\* the account the path id of the request refers to is one whose number is not n
ResolvesToOther(r, n) ==
  \/ Loaded(r) /\ loc[r].account.Number # n
  \/ /\ calls[r] = << >>
     /\ ~getID(rq[r].id).err
     /\ ~GetAccountByID(store, getID(rq[r].id).id).err
     /\ GetAccountByID(store, getID(rq[r].id).id).acc.Number # n

(***************************************************************************)
(* C1: a token issued by createJWT for account A, presented on             *)
(* /account/{id} where id resolves to an account B with another number, is *)
(* answered 403 "permission denied" and the wrapped handler is not         *)
(* invoked.                                                                *)
(***************************************************************************)
C1_CrossAccountForbidden ==
  \A r \in Slots : \A n \in Numbers :
    (Guarded(r) /\ Answered(r) /\ IssuedFor(rq[r].token, n) /\ ResolvesToOther(r, n))
      => (pc[r] = "done" /\ resp[r] = PermissionDenied /\ ~invoked[r])

(***************************************************************************)
(* C2: whenever the guard invokes the wrapped handler, the token of the    *)
(* request validated successfully and its accountNumber claim equals the   *)
(* Number of the account storage returned for the id of the path; the      *)
(* handler of /account/{id} runs in no other way.                          *)
(***************************************************************************)
HandlerRan(r) ==
  \/ pc[r] = "handler"
  \/ resp[r].kind \in {"Account", "deleted"}
  \/ \E i \in 1..Len(calls[r]) : calls[r][i].op = "DeleteAccount"
  \/ Len(calls[r]) > 1
C2_HandlerOnlyForOwner ==
  \A r \in Slots :
    /\ (Guarded(r) /\ HandlerRan(r)) => invoked[r]
    /\ invoked[r] =>
         /\ Guarded(r)
         /\ loc[r].valid
         /\ validateJWT(rq[r].token, secret, loc[r].at).valid
         /\ rq[r].token.sig = HMAC(secret, rq[r].token.alg, rq[r].token.claims)
         /\ Loaded(r)
         /\ ~getID(rq[r].id).err
         /\ loc[r].account.ID = getID(rq[r].id).id
         /\ calls[r][1] = Call("GetAccountByID", getID(rq[r].id).id)
         /\ rq[r].token.claims.accountNumber = Some(JInt(loc[r].account.Number))


(***************************************************************************)
(* C3: a token issued by createJWT and presented after its embedded        *)
(* expiration timestamp is rejected by validateJWT: the guard answers 403  *)
(* and the wrapped handler is not invoked.                                 *)
(***************************************************************************)
C3_ExpiredIssuedTokenRejected ==
  \A r \in Slots : \A n \in Numbers :
    ( /\ Guarded(r) /\ pc[r] \notin {"idle", "guard"} /\ IssuedFor(rq[r].token, n)
      /\ Less(rq[r].token.claims.expiresAt[1].v, I(loc[r].at)) )
      => (~loc[r].valid /\ pc[r] = "done" /\ resp[r] = PermissionDenied /\ ~invoked[r])

(***************************************************************************)
(* C4: validateJWT accepts a token if and only if its signature verifies   *)
(* under the server's secret and the token has not expired.                *)
(***************************************************************************)
Validated(r) == Guarded(r) /\ pc[r] \notin {"idle", "guard"}
SignatureVerifies(tok, sec) == tok.shape = "jwt" /\ KeyFuncOK(tok.alg) /\ SignatureOK(tok, sec)
ExpiryStamps(tok) ==
  { o[1].v : o \in { x \in {tok.claims.exp, tok.claims.expiresAt} : x # None /\ x[1].t = "number" } }
Expired(tok, t) == \E e \in ExpiryStamps(tok) : ~Less(I(t), e)
C4_AcceptedIffSignedAndFresh ==
  \A r \in Slots :
    Validated(r) =>
      (loc[r].valid <=> (SignatureVerifies(rq[r].token, secret) /\ ~Expired(rq[r].token, loc[r].at)))

(***************************************************************************)
(* C5: a request on the protected route without an x-jwt-token header is   *)
(* answered 403 and no storage call is made for it.                        *)
(***************************************************************************)
C5_NoHeaderNoLookup ==
  \A r \in Slots :
    (Guarded(r) /\ rq[r].token = NoHeader /\ pc[r] # "guard")
      => (pc[r] = "done" /\ resp[r] = PermissionDenied /\ calls[r] = << >> /\ ~invoked[r])
C5_Witness ==
  \E r \in Slots :
    /\ Guarded(r) /\ rq[r].token = NoHeader /\ pc[r] = "done"
    /\ ~getID(rq[r].id).err /\ ~GetAccountByID(store, getID(rq[r].id).id).err
    /\ resp[r] = PermissionDenied

(***************************************************************************)
(* C6: for a stored account and its correct password, POST /login answers  *)
(* 200 with a token whose accountNumber claim is the account's Number and  *)
(* with the number field equal to that Number.                             *)
(***************************************************************************)
LoginDone(r) == rq[r].route = "/login" /\ pc[r] = "done"
LoginFor(r, a) == rq[r].method = "POST" /\ rq[r].body.wf /\ rq[r].body.Number = a.Number
C6_LoginIssuesTokenForAccount ==
  \A r \in Slots : \A a \in store :
    (LoginDone(r) /\ LoginFor(r, a) /\ ValidatePassword(a, rq[r].body.Password))
      => /\ resp[r].status = StatusOK
         /\ resp[r].kind = "LoginResponse"
         /\ resp[r].number = Some(a.Number)
         /\ resp[r].token # None
         /\ resp[r].token[1].claims.accountNumber = Some(JInt(a.Number))
C6_Witness ==
  \E r \in Slots : \E a \in store :
    /\ LoginDone(r) /\ LoginFor(r, a) /\ ValidatePassword(a, rq[r].body.Password)
    /\ resp[r].status = StatusOK /\ resp[r].number = Some(a.Number)

(***************************************************************************)
(* C7: for a stored account and a password that does not match it, POST    *)
(* /login answers 403 and issues no token: createJWT is not called and the *)
(* response carries no token.                                              *)
(***************************************************************************)
C7_BadPasswordNoToken ==
  \A r \in Slots : \A a \in store :
    (LoginDone(r) /\ LoginFor(r, a) /\ ~ValidatePassword(a, rq[r].body.Password))
      => /\ resp[r].status = StatusForbidden
         /\ resp[r].token = None
         /\ resp[r].kind # "LoginResponse"
         /\ \A i \in 1..Len(calls[r]) : calls[r][i].op # "createJWT"
C7_Witness ==
  \E r \in Slots : \E a \in store :
    /\ LoginDone(r) /\ LoginFor(r, a) /\ ~ValidatePassword(a, rq[r].body.Password)
    /\ rq[r].body.Password # ""
    /\ resp[r].status = StatusForbidden

(***************************************************************************)
(* C8: round trip: a token createJWT issued for the account with number N, *)
(* validated by validateJWT under the same secret, is valid and the        *)
(* account number of its decoded claim set (the int64 of the float64 the   *)
(* claim decodes to, as the guard reads it) is N, for every N.             *)
(***************************************************************************)
C8_RoundTrip ==
  \A r \in Slots :
    (LoginDone(r) /\ resp[r].kind = "LoginResponse") =>
      LET v == validateJWT(resp[r].token[1], secret, now)
      IN  /\ ~v.err
          /\ v.valid
          /\ IsFloat64(v.claims.accountNumber)
          /\ ToInt64(v.claims.accountNumber[1]) = rq[r].body.Number
          /\ \E a \in store : a.Number = ToInt64(v.claims.accountNumber[1])

(***************************************************************************)
(* C9: the guard's rejection is the same, 403 {error: "permission          *)
(* denied"}, whichever of these causes applies: no token, a malformed      *)
(* token, a mis-signed token, an expired token, a path id that does not    *)
(* parse, a valid token of another account.                                *)
(***************************************************************************)
CauseMissing(r) == rq[r].token = NoHeader
CauseMalformed(r) == rq[r].token.shape = "garbage"
CauseMisSigned(r) == rq[r].token.shape = "jwt" /\ ~SignatureOK(rq[r].token, secret)
CauseExpired(r) ==
  /\ rq[r].token.claims.exp # None
  /\ rq[r].token.claims.exp[1].t = "number"
  /\ rq[r].token.claims.exp[1].v # I(0)
  /\ ~Less(I(loc[r].at), rq[r].token.claims.exp[1].v)
CauseBadId(r) == getID(rq[r].id).err
\* the subject the guard extracts from the claims is not the number of the account
CauseNotOwner(r) ==
  /\ loc[r].valid /\ Loaded(r) /\ IsFloat64(loc[r].claims.accountNumber)
  /\ ToInt64(loc[r].claims.accountNumber[1]) # loc[r].account.Number
RejectionCause(r) ==
  \/ CauseMissing(r) \/ CauseMalformed(r) \/ CauseMisSigned(r)
  \/ CauseExpired(r) \/ CauseBadId(r) \/ CauseNotOwner(r)
LookupFailed(r) ==
  /\ Validated(r) /\ pc[r] # "load"
  /\ loc[r].valid /\ ~getID(rq[r].id).err
  /\ calls[r] # << >> /\ ~Loaded(r)
C10_MissingAccountBadRequest ==
  \A r \in Slots :
    LookupFailed(r)
      => /\ pc[r] = "done"
         /\ resp[r].status = StatusBadRequest
         /\ resp[r] = WriteApiError(StatusBadRequest, "This account does not exist")
         /\ resp[r] # PermissionDenied
         /\ ~invoked[r]
C10_Witness ==
  \E r \in Slots :
    /\ LookupFailed(r) /\ resp[r].status = StatusBadRequest
    /\ calls[r] = <<Call("GetAccountByID", getID(rq[r].id).id)>>


(***************************************************************************)
(* C11: when JWT_SECRET is absent from the environment no token is signed  *)
(* with the empty key (login fails with an error and returns no token) and *)
(* validation accepts no token signed with the empty key.                  *)
(***************************************************************************)
SignedWithEmptyKey(tok) == tok.shape = "jwt" /\ tok.sig.signed /\ tok.sig.key = ""
C11_NoEmptyKeySigning ==
  \A r \in Slots :
    /\ (secret = "" /\ LoginDone(r)) => (resp[r].token = None /\ resp[r].status # StatusOK)
    /\ (Validated(r) /\ SignedWithEmptyKey(rq[r].token)) => ~loc[r].valid

(***************************************************************************)
(* C12: every step of the guard leaves storage and the request as they     *)
(* were and makes no storage call but the lookup by id; a step on which    *)
(* the guard rejects writes a structured error payload (an ApiError object *)
(* with a message, status 403 or 400) and does not invoke the wrapped      *)
(* handler; a step on which it proceeds hands the handler the request it   *)
(* received, with no response written yet.                                 *)
(***************************************************************************)
GuardStep(r) == Guarded(r) /\ pc[r] \in {"guard", "load"} /\ pc'[r] # pc[r]
StructuredError(rs) ==
  /\ rs.kind = "ApiError" /\ rs.error # ""
  /\ rs.status \in {StatusForbidden, StatusBadRequest}
  /\ rs.token = None /\ rs.account = None
GuardFrame(r) ==
  /\ store' = store
  /\ rq'[r] = rq[r]
  /\ \A i \in 1..Len(calls'[r]) : calls'[r][i].op = "GetAccountByID"
  /\ pc'[r] \in {"load", "done", "handler", "crashed"}
  /\ pc'[r] = "done" => (StructuredError(resp'[r]) /\ ~invoked'[r])
  /\ pc'[r] = "handler" => (invoked'[r] /\ resp'[r] = NoResponse)
  /\ pc'[r] \in {"load", "crashed"} => (~invoked'[r] /\ resp'[r] = NoResponse)
C12_GuardFrame == [][\A r \in Slots : GuardStep(r) => GuardFrame(r)]_vars
\* a DELETE with a valid token of another account was rejected after the
\* lookup: the account is still stored and the request is the one received
C12_Witness ==
  \E r \in Slots : \E a \in store :
    /\ Validated(r) /\ pc[r] = "done" /\ ~invoked[r]
    /\ rq[r].method = "DELETE" /\ loc[r].valid
    /\ calls[r] = <<Call("GetAccountByID", a.ID)>> /\ loc[r].account = a
    /\ StructuredError(resp[r])

(***************************************************************************)
(* C13: with logins and validations in flight together on a store nobody   *)
(* changes, the outcome of each request (status, token subject, handler    *)
(* invoked or not) is the outcome the request has when it is served alone, *)
(* which depends on the request, the store, the secret and the time of     *)
(* serving only, and so on no order of the requests.                       *)
(***************************************************************************)
Outcome(status, subject, inv) == [status |-> status, invoked |-> inv, subject |-> subject]
\* the subject of the token a login response carries, if any
IssuedSubject(rs) == IF rs.token = None THEN None ELSE rs.token[1].claims.accountNumber
\* the request served alone, from start to end, at time t
SerialOutcome(q, st, sec, t) ==
  IF q.route = "/login"
    THEN LET res == handleLogin(q, st, sec)
             rs == IF res.panic THEN NoResponse ELSE makeHTTPHandleFunc(res)
         IN  Outcome(rs.status, IssuedSubject(rs), FALSE)
  ELSE LET v == validateJWT(q.token, sec, t)
           g == getID(q.id)
           got == GetAccountByID(st, g.id)
       IN  IF v.err \/ ~v.valid \/ g.err
             THEN Outcome(StatusForbidden, v.claims.accountNumber, FALSE)
           ELSE IF got.err
             THEN Outcome(StatusBadRequest, v.claims.accountNumber, FALSE)
           ELSE IF ~IsFloat64(v.claims.accountNumber)
             THEN Outcome(NoResponse.status, v.claims.accountNumber, FALSE)
           ELSE IF got.acc.Number # ToInt64(v.claims.accountNumber[1])
             THEN Outcome(StatusForbidden, v.claims.accountNumber, FALSE)
           ELSE Outcome(makeHTTPHandleFunc(handleAccountWithID(q, st, FALSE)).status,
                        v.claims.accountNumber, TRUE)
ObservedOutcome(r) ==
  Outcome(resp[r].status,
          IF rq[r].route = "/login" THEN IssuedSubject(resp[r]) ELSE loc[r].claims.accountNumber,
          invoked[r])
C13_OrderInsensitive ==
  \A r \in ConcSlots :
    pc[r] \in {"done", "crashed"}
      => ObservedOutcome(r) = SerialOutcome(rq[r], store, secret, loc[r].at)
\* a read the handler served for the owner, next to a request of the holder
\* of the other token on the same account, rejected, both finished
C13_Witness ==
  \E r, s \in ConcSlots :
    /\ r # s /\ pc[r] = "done" /\ pc[s] = "done"
    /\ Guarded(r) /\ invoked[r] /\ resp[r].status = StatusOK
    /\ Guarded(s) /\ rq[s].id = rq[r].id /\ loc[s].valid
    /\ rq[s].token # rq[r].token /\ resp[s] = PermissionDenied

(***************************************************************************)
(* C14: every token createJWT issues carries the number of the account and *)
(* an expiration time that is the time of issue plus one fixed lifetime:   *)
(* for any two issued tokens the expiration times differ by what the times *)
(* of issue differ by.                                                     *)
(***************************************************************************)
IssuedToken(r) == LoginDone(r) /\ resp[r].token # None
ExpiryOf(r) == IntOf(resp[r].token[1].claims.expiresAt[1].v)
C14_ExpiryIsIssueTimePlusLifetime ==
  \A r, s \in ConcSlots :
    (IssuedToken(r) /\ IssuedToken(s)) =>
      /\ resp[r].token[1].claims.accountNumber = Some(JInt(rq[r].body.Number))
      /\ resp[r].token[1].claims.expiresAt # None
      /\ ExpiryOf(r) - loc[r].at = ExpiryOf(s) - loc[s].at

(***************************************************************************)
(* C15: validateJWT rejects every token whose header declares a signing    *)
(* algorithm outside the HMAC family, "none" included, whatever its        *)
(* signature; such a token never reaches the wrapped handler.              *)
(***************************************************************************)
OtherAlg(tok) == tok.shape = "jwt" /\ tok.alg \notin {"HS256", "HS384", "HS512"}
C15_OtherAlgorithmRejected ==
  \A r \in Slots :
    (Validated(r) /\ OtherAlg(rq[r].token))
      => /\ ~loc[r].valid
         /\ pc[r] = "done"
         /\ resp[r] = PermissionDenied
         /\ calls[r] = << >>
         /\ ~invoked[r]
\* an unsigned "none" token for the number of the account addressed was rejected
C15_Witness ==
  \E r \in Slots : \E a \in store :
    /\ Validated(r) /\ pc[r] = "done"
    /\ rq[r].token = JWT("none", IssuedClaims(a.Number), NoSig)
    /\ ~getID(rq[r].id).err /\ getID(rq[r].id).id = a.ID
    /\ resp[r] = PermissionDenied

(***************************************************************************)
(* C16: the guard runs extract, validate, parse id, load, compare, proceed *)
(* in this order and stops at the first failure: the storage lookup is     *)
(* made only after the token validated and the id parsed, and an id that   *)
(* is no integer is answered 403 without a storage lookup.                 *)
(***************************************************************************)
C16_GuardOrder ==
  \A r \in Slots :
    Guarded(r) =>
      /\ calls[r] # << >> =>
           /\ loc[r].valid
           /\ ~getID(rq[r].id).err
           /\ calls[r][1] = Call("GetAccountByID", getID(rq[r].id).id)
      /\ (Validated(r) /\ getID(rq[r].id).err) =>
           (pc[r] = "done" /\ resp[r] = PermissionDenied /\ calls[r] = << >> /\ ~invoked[r])
      /\ (Validated(r) /\ ~loc[r].valid) =>
           (pc[r] = "done" /\ resp[r] = PermissionDenied /\ calls[r] = << >> /\ ~invoked[r])
      /\ Loaded(r) => calls[r] # << >>
      /\ invoked[r] => (Loaded(r) /\ ~OwnerMismatch(loc[r].account, loc[r].claims))
\* a valid token with a path id that is no integer: 403 and no lookup
C16_Witness ==
  \E r \in Slots :
    /\ Validated(r) /\ pc[r] = "done" /\ loc[r].valid
    /\ getID(rq[r].id).err /\ calls[r] = << >>
    /\ resp[r] = PermissionDenied

(***************************************************************************)
(* C17: every request on the protected route ends with one structured      *)
(* outcome, the guard's JSON rejection or the handler's response, and no   *)
(* token crashes the request-handling task, a validated token without a    *)
(* numeric accountNumber claim included.                                   *)
(***************************************************************************)
StructuredOutcome(r) ==
  \/ ~invoked[r] /\ resp[r] \in {PermissionDenied, AccountNotFound}
  \/ invoked[r] /\ resp[r].status \in {StatusOK, StatusBadRequest}
C17_NoCrash ==
  \A r \in Slots :
    Guarded(r) =>
      /\ pc[r] # "crashed"
      /\ pc[r] = "done" => StructuredOutcome(r)

(***************************************************************************)
(* C18: handleLogin issues a token only for a POST whose body decoded,     *)
(* whose account was found and whose password validated; another method is *)
(* answered 400 (never 403) with no storage lookup and no token; a POST    *)
(* for a number storage does not know is answered 400 with no token; a     *)
(* login that ends with no response issued no token either.                *)
(***************************************************************************)
LoginEnded(r) == rq[r].route = "/login" /\ pc[r] \in {"done", "crashed"}
C18_LoginPaths ==
  \A r \in Slots :
    LoginEnded(r) =>
      /\ resp[r].token # None =>
           /\ pc[r] = "done"
           /\ rq[r].method = "POST" /\ rq[r].body.wf /\ ~rq[r].body.nil
           /\ \E a \in store : /\ a.Number = rq[r].body.Number
                               /\ ValidatePassword(a, rq[r].body.Password)
      /\ rq[r].method # "POST" =>
           /\ resp[r].status = StatusBadRequest
           /\ resp[r].token = None
           /\ calls[r] = << >>
      /\ ( /\ rq[r].method = "POST" /\ rq[r].body.wf /\ ~rq[r].body.nil
           /\ ~\E a \in store : a.Number = rq[r].body.Number ) =>
           /\ resp[r].status = StatusBadRequest
           /\ resp[r].token = None
           /\ calls[r] = <<CallN("GetAccountByNumber", rq[r].body.Number)>>
      /\ pc[r] = "crashed" =>
           (resp[r] = NoResponse /\ \A k \in 1..Len(calls[r]) : calls[r][k].op # "createJWT")
\* a GET on /login with the right credentials of a stored account
C18_Witness ==
  \E r \in Slots : \E a \in store :
    /\ LoginDone(r) /\ rq[r].method # "POST"
    /\ rq[r].body.wf /\ rq[r].body.Number = a.Number
    /\ ValidatePassword(a, rq[r].body.Password)
    /\ resp[r].status = StatusBadRequest

(***************************************************************************)
(* C19: with reads and deletes of several token holders in flight together *)
(* on one store, the store changes only by a DELETE the handler serves,    *)
(* and the handler deletes or returns only an account whose Number is the  *)
(* subject of the token of the request it serves; a request whose account  *)
(* was deleted between the guard's comparison and the handler's storage    *)
(* access touches no account and ends in an error.                         *)
(***************************************************************************)
HandlerStep(r) == pc[r] = "handler" /\ pc'[r] = "done"
\* the subject of the token as the guard extracts it from the decoded claims
TokenSubject(r) == ToInt64(loc[r].claims.accountNumber[1])
ActsOnOwnOnly(r) ==
  /\ store' \subseteq store
  /\ \A a \in store \ store' : a.Number = TokenSubject(r) /\ rq[r].method = "DELETE"
  /\ resp'[r].account # None =>
       (resp'[r].account[1].Number = TokenSubject(r) /\ resp'[r].account[1] \in store)
StoreChangesByHandler == store' # store => \E r \in ConcSlots : HandlerStep(r)
GoneInGap(r) == ~\E a \in store : a.ID = loc[r].userID
====
